---------------------------- MODULE Spec2Model ----------------------------
(***************************************************************************)
(* A model of panoptes/weather/AAGCloudSensor.py: the serial query engine  *)
(* (query, reversed_query), the measurement methods built on it, the       *)
(* polling cycle update_weather and the two telemetry logs.                *)
(*                                                                         *)
(* Text is modelled as sequences of one-character strings.  A regular      *)
(* expression is kept as its source text and compiled by Compile, so that  *)
(* the patterns are built exactly the way the code concatenates them.      *)
(* Physical quantities are integers in thousandths of their unit (mK, mV,  *)
(* ohm for kiloohm); a median is kept doubled (Median2) so that the mean   *)
(* of two middle samples stays an integer.                                 *)
(***************************************************************************)
EXTENDS Integers, Sequences, FiniteSets, TLC

(***************************************************************************)
(* Characters                                                              *)
(***************************************************************************)
\* chr(17), the device control character of the handshaking block
DC1 == "DC1"
\* a byte that is not valid UTF-8 (line noise)
BadByte == "xFF"
Digits == {"0", "1", "2", "3", "4", "5", "6", "7", "8", "9"}
Letters == {"A", "B", "C", "D", "E", "F", "K", "N", "Q", "R", "S", "T", "V",
            "X", "Y", "a", "d", "e", "l", "o", "u", "v", "w", "W", "_"}
\* what Python's \s matches among the characters of the model
Whitespace == {" "}
\* Python's None, and a value that is present: a value that may be None is
\* kept as a sequence of at most one element
None == <<>>
Some(x) == <<x>>
\* what a Python expression gives: the exception it raises ("" for none) and
\* its value
Ok(v) == [error |-> "", value |-> v]
Err(e) == [error |-> e, value |-> None]

DigitValue(c) ==
  CASE c = "0" -> 0 [] c = "1" -> 1 [] c = "2" -> 2 [] c = "3" -> 3
    [] c = "4" -> 4 [] c = "5" -> 5 [] c = "6" -> 6 [] c = "7" -> 7
    [] c = "8" -> 8 [] c = "9" -> 9

DigitChar(n) == CHOOSE c \in Digits : DigitValue(c) = n

(***************************************************************************)
(* Python string operations used by the code                               *)
(***************************************************************************)
RECURSIVE Repeat(_, _)
Repeat(x, n) == IF n <= 0 THEN <<>> ELSE <<x>> \o Repeat(x, n - 1)

\* str.replace(old, new) for a one-character old
RECURSIVE Replace(_, _, _)
Replace(s, old, new) ==
  IF s = <<>> THEN <<>>
  ELSE (IF Head(s) = old THEN new ELSE <<Head(s)>>) \o Replace(Tail(s), old, new)

\* '{}'.format(n) for an integer n
RECURSIVE Format(_)
Format(n) ==
  IF n < 0 THEN <<"-">> \o Format(0 - n)
  ELSE IF n < 10 THEN <<DigitChar(n)>>
  ELSE Format(n \div 10) \o <<DigitChar(n % 10)>>

\* s[-n:]
LastN(s, n) == IF Len(s) <= n THEN s ELSE SubSeq(s, Len(s) - n + 1, Len(s))
\* s[0:-n]
ButLastN(s, n) == IF Len(s) <= n THEN <<>> ELSE SubSeq(s, 1, Len(s) - n)

RECURSIVE LStrip(_)
LStrip(s) == IF s # <<>> /\ Head(s) \in Whitespace THEN LStrip(Tail(s)) ELSE s
RECURSIVE RStrip(_)
RStrip(s) ==
  IF s # <<>> /\ s[Len(s)] \in Whitespace THEN RStrip(SubSeq(s, 1, Len(s) - 1))
  ELSE s
\* str.strip()
Strip(s) == LStrip(RStrip(s))

RECURSIVE DigitsValue(_)
DigitsValue(s) ==
  IF s = <<>> THEN 0
  ELSE 10 * DigitsValue(SubSeq(s, 1, Len(s) - 1)) + DigitValue(s[Len(s)])

AllDigits(s) == s # <<>> /\ \A k \in 1..Len(s) : s[k] \in Digits

\* int(x): TypeError for None, ValueError for text that is no integer literal
ParseInt(x) ==
  IF x = None THEN Err("TypeError")
  ELSE LET t == Strip(x[1])
           body == IF t # <<>> /\ Head(t) \in {"-", "+"} THEN Tail(t) ELSE t
       IN  IF ~AllDigits(body) THEN Err("ValueError")
           ELSE IF t # <<>> /\ Head(t) = "-" THEN Ok(0 - DigitsValue(body))
           ELSE Ok(DigitsValue(body))

\* float(x) of the texts the model's device sends: integer literals, or
\* digits '.' digits (valued by its integer part, the fraction is unused)
ParseFloat(x) ==
  IF x = None THEN Err("TypeError")
  ELSE LET t == Strip(x[1])
           dots == {k \in 1..Len(t) : t[k] = "."}
       IN  IF dots = {} THEN ParseInt(x)
           ELSE IF Cardinality(dots) > 1 THEN Err("ValueError")
           ELSE LET d == CHOOSE k \in dots : TRUE
                    ip == SubSeq(t, 1, d - 1)
                    fp == SubSeq(t, d + 1, Len(t))
                IN  IF AllDigits(ip) /\ (fp = <<>> \/ AllDigits(fp))
                    THEN Ok(DigitsValue(ip)) ELSE Err("ValueError")

\* str(bytes, 'utf-8')
Decode(bytes) ==
  IF \E k \in 1..Len(bytes) : bytes[k] = BadByte THEN Err("UnicodeDecodeError")
  ELSE Ok(bytes)

(***************************************************************************)
(* Regular expressions (the subset of re the code uses)                    *)
(***************************************************************************)
\* Whether character ch is in the class cls: a set of literal characters and
\* of the class escapes \s, \w, \d (kept as two-character tags).
InClass(ch, cls) ==
  \/ ch \in cls
  \/ "\\s" \in cls /\ ch \in Whitespace
  \/ "\\d" \in cls /\ ch \in Digits
  \/ "\\w" \in cls /\ ch \in (Digits \cup Letters)
  \/ "any" \in cls /\ ch # "\n"

\* The atom of an escape \c
EscapeClass(c) == IF c \in {"s", "d", "w"} THEN {"\\" \o c} ELSE {c}

\* The class of a bracket expression's inside
RECURSIVE BracketClass(_)
BracketClass(s) ==
  IF s = <<>> THEN {}
  ELSE IF Head(s) = "\\" /\ Len(s) >= 2
       THEN EscapeClass(s[2]) \cup BracketClass(SubSeq(s, 3, Len(s)))
       ELSE {Head(s)} \cup BracketClass(Tail(s))

\* index of the first c in s at or after i (0 when there is none)
IndexFrom(s, c, i) ==
  LET at == {k \in i..Len(s) : s[k] = c}
  IN  IF at = {} THEN 0 ELSE CHOOSE k \in at : \A m \in at : k <= m

\* re.compile: the pattern as a sequence of one-character atoms, each with
\* its class and the number of the capture group it lies in (0: none).
RECURSIVE CompileFrom(_, _, _, _, _)
CompileFrom(src, i, grp, ngroups, acc) ==
  IF i > Len(src) THEN acc
  ELSE LET c == src[i] IN
    CASE c = "(" -> CompileFrom(src, i + 1, ngroups + 1, ngroups + 1, acc)
      [] c = ")" -> CompileFrom(src, i + 1, 0, ngroups, acc)
      [] c = "{" ->
           LET j == IndexFrom(src, "}", i)
               n == DigitsValue(SubSeq(src, i + 1, j - 1))
               last == acc[Len(acc)]
           IN  CompileFrom(src, j + 1, grp, ngroups,
                           SubSeq(acc, 1, Len(acc) - 1) \o Repeat(last, n))
      [] c = "\\" ->
           CompileFrom(src, i + 2, grp, ngroups,
                       Append(acc, [cls |-> EscapeClass(src[i + 1]), g |-> grp]))
      [] c = "[" ->
           LET j == IndexFrom(src, "]", i)
           IN  CompileFrom(src, j + 1, grp, ngroups,
                           Append(acc, [cls |-> BracketClass(SubSeq(src, i + 1, j - 1)),
                                        g |-> grp]))
      [] c = "." ->
           CompileFrom(src, i + 1, grp, ngroups,
                       Append(acc, [cls |-> {"any"}, g |-> grp]))
      [] OTHER ->
           CompileFrom(src, i + 1, grp, ngroups,
                       Append(acc, [cls |-> {c}, g |-> grp]))

Compile(src) == CompileFrom(src, 1, 0, 0, <<>>)

\* number of capture groups of a pattern
Groups(src) == Cardinality({k \in 1..Len(src) : src[k] = "("})

\* re.match(pattern, s): whether s begins with a match of the pattern
ReMatch(src, s) ==
  LET pat == Compile(src)
  IN  /\ Len(s) >= Len(pat)
      /\ \A k \in 1..Len(pat) : InClass(s[k], pat[k].cls)

\* match.group(n) of a successful match: IndexError when there is no such group
Group(src, s, n) ==
  LET pat == Compile(src)
      at == {k \in 1..Len(pat) : pat[k].g = n}
  IN  IF n > Groups(src) THEN Err("IndexError")
      ELSE IF at = {} THEN Ok(<<>>)
      ELSE LET lo == CHOOSE k \in at : \A m \in at : k <= m
               hi == CHOOSE k \in at : \A m \in at : k >= m
           IN  Ok(SubSeq(s, lo, hi))

(***************************************************************************)
(* Frame codec: the patterns query and reversed_query build                *)
(***************************************************************************)
\* A str argument and a list argument of query
Str(s) == [type |-> "str", val |-> s]
List(l) == [type |-> "list", val |-> l]

\* '!'+chr(17)+'\s{12}0'
HandshakePattern == <<"!", DC1, "\\", "s", "{", "1", "2", "}", "0">>

\* a variant of Capture whose class admits the minus sign (sensitivity of
\* C29)
CaptureSigned(width) ==
  <<"(", "[", "\\", "s", "\\", "w", "\\", "d", "\\", ".", "-", "]", "{">>
    \o Format(width) \o <<"}", ")">>

\* '([\s\w\d\.]{' + width + '})'
Capture(width) ==
  <<"(", "[", "\\", "s", "\\", "w", "\\", "d", "\\", ".", "]", "{">>
    \o Format(width) \o <<"}", ")">>

\* expect.replace('!', '\!')
Escaped(s) == Replace(s, "!", <<"\\", "!">>)

\* a variant of FieldWidth that sizes by the first prefix (sensitivity of C16)
FieldWidthFirst(expect) == 15 - Len(expect.val[1])

\* the width query gives every field of a list: 15 - len(expect[1])
FieldWidth(expect) == 15 - Len(expect.val[2])

RECURSIVE ListPattern(_, _)
ListPattern(expect, k) ==
  IF k > Len(expect.val) THEN <<>>
  ELSE Escaped(expect.val[k]) \o Capture(FieldWidth(expect)) \o ListPattern(expect, k + 1)

nResponses(expect) == IF expect.type = "str" THEN 1 ELSE Len(expect.val)

\* a variant of ResponsePattern that treats every string as a prefix
\* (sensitivity of C23)
ResponsePatternPrefix(expect) ==
  IF expect.type = "str" THEN Escaped(expect.val) \o Capture(13)
  ELSE ListPattern(expect, 1)

\* ResponsePattern of query (for a list of at least two prefixes)
ResponsePattern(expect) ==
  IF expect.type = "str"
  THEN IF Len(expect.val) > 2 THEN expect.val
       ELSE Escaped(expect.val) \o Capture(13)
  ELSE ListPattern(expect, 1)

\* a variant of ReversedPattern that does not ask for the handshake block
\* (sensitivity of C17)
ReversedPatternBare(expect) == Escaped(expect.val) \o Capture(13)

\* ResponsePattern of reversed_query
ReversedPattern(expect) == HandshakePattern \o Escaped(expect.val) \o Capture(13)

\* AAG.read(n): at most n of the bytes the device sent
ReadBytes(n, sent) == IF Len(sent) <= n THEN sent ELSE SubSeq(sent, 1, n)

\* a variant of ReadSize that asks for nBytes = nResponses*15 (sensitivity
\* of C24)
ReadSizeNBytes(call) ==
  IF call.fn = "query" THEN nResponses(call.expect) * 15 ELSE 1 * 15

\* the number of bytes an attempt asks the transport for
ReadSize(call) ==
  IF call.fn = "query" THEN (nResponses(call.expect) + 1) * 15 ELSE (1 + 1) * 15

\* what one pass of the loop does on the serial line: AAG.write(send), then
\* AAG.read((nResponses+1)*15)
Transport(call) ==
  <<[op |-> "write", data |-> call.send], [op |-> "read", size |-> ReadSize(call)]>>

\* a variant of HSBgood that only waits for 15 trailing bytes (sensitivity of C2)
HSBunchecked(responseString) == Len(responseString) >= 15

\* the handshake block is the last 15 characters of the response
HSBgood(responseString) == ReMatch(HandshakePattern, LastN(responseString, 15))

ResponseMatch(expect, responseString) ==
  ReMatch(ResponsePattern(expect), ButLastN(responseString, 15))

\* Python truth of a query result (None, '' and [] are false)
Truthy(v) == v # None /\ v[1] # <<>>

\* a variant of QueryResult that returns the list even for one field
\* (sensitivity of C3)
QueryResultList(expect, responseString) ==
  IF HSBgood(responseString) /\ ResponseMatch(expect, responseString)
  THEN LET pat == ResponsePattern(expect)
           payload == ButLastN(responseString, 15)
           groups == [k \in 1..nResponses(expect) |-> Group(pat, payload, k)]
       IN  IF \E k \in 1..nResponses(expect) : groups[k].error # ""
           THEN Err("IndexError")
           ELSE Ok(Some([k \in 1..nResponses(expect) |-> groups[k].value]))
  ELSE Ok(None)

\* The result one attempt of query leaves: the captures, None, or the
\* IndexError of group(i+1) on a pattern with fewer groups.
QueryResult(expect, responseString) ==
  IF HSBgood(responseString) /\ ResponseMatch(expect, responseString)
  THEN LET pat == ResponsePattern(expect)
           payload == ButLastN(responseString, 15)
           groups == [k \in 1..nResponses(expect) |-> Group(pat, payload, k)]
           ResponseArray == [k \in 1..nResponses(expect) |-> groups[k].value]
       IN  IF \E k \in 1..nResponses(expect) : groups[k].error # ""
           THEN Err("IndexError")
           ELSE IF Len(ResponseArray) = 1 THEN Ok(Some(ResponseArray[1]))
           ELSE Ok(Some(ResponseArray))
  ELSE Ok(None)

\* The result one attempt of reversed_query leaves
ReversedResult(expect, responseString) ==
  IF ReMatch(ReversedPattern(expect), responseString)
  THEN Ok(Some(Group(ReversedPattern(expect), responseString, 1).value))
  ELSE Ok(None)

AttemptResult(call, responseString) ==
  IF call.fn = "query" THEN QueryResult(call.expect, responseString)
  ELSE ReversedResult(call.expect, responseString)

\* a variant of GivesUp that counts one attempt too many (sensitivity of C1)
GivesUpEarly(res, n, max) == ~Truthy(res) /\ n >= max - 1

\* a variant of GivesUp that allows one attempt more (sensitivity of C14)
GivesUpLate(res, n, max) == ~Truthy(res) /\ n >= max + 1

\* 'if not result and tries >= max_tries: return None'
GivesUp(res, n, max) == ~Truthy(res) /\ n >= max

\* str(responseString, 'utf-8') and the judgement of the decoded text
Judge(call, bytes) ==
  IF Decode(bytes).error # "" THEN Decode(bytes)
  ELSE AttemptResult(call, Decode(bytes).value)

\* the locals after a pass that read bytes and judged them res, and whether
\* the call returns (and what)
Outcome(call, n, bytes, res) ==
  [error |-> res.error,
   responseString |-> bytes,
   tries |-> n + 1,
   result |-> res.value,
   returned |-> Truthy(res.value) \/ GivesUp(res.value, n + 1, call.max_tries),
   value |-> IF Truthy(res.value) THEN res.value ELSE None]

\* One pass of the while loop of query / reversed_query with the bytes the
\* device sent: what is raised, the locals afterwards, and whether the call
\* returns (and what).
Attempt(call, n, sent) ==
  Outcome(call, n, ReadBytes(ReadSize(call), sent),
          Judge(call, ReadBytes(ReadSize(call), sent)))

(***************************************************************************)
(* Calibration and aggregation                                             *)
(***************************************************************************)
RECURSIVE Insert(_, _)
Insert(x, s) ==
  IF s = <<>> THEN <<x>>
  ELSE IF x <= Head(s) THEN <<x>> \o s
  ELSE <<Head(s)>> \o Insert(x, Tail(s))

RECURSIVE Sorted(_)
Sorted(s) == IF s = <<>> THEN <<>> ELSE Insert(Head(s), Sorted(Tail(s)))

\* a variant of Median2 that takes the upper middle sample alone
\* (sensitivity of C4)
UpperMiddle2(s) == 2 * Sorted(s)[Len(s) \div 2 + 1]

\* np.median, doubled: the middle sample twice, or the sum of the two middle
Median2(s) ==
  LET t == Sorted(s)
      n == Len(t)
  IN  IF n % 2 = 1 THEN 2 * t[(n + 1) \div 2]
      ELSE t[n \div 2] + t[n \div 2 + 1]

\* 'if len(samples) >= 4'
Quorum(s) == Len(s) >= 4

\* the field a measurement method sets from its samples
Aggregate(s) == IF Quorum(s) THEN Some(Median2(s)) ELSE None

\* float(response)/100. + 273.15, in mK
Kelvin(response) == response * 10 + 273150

\* 1023 * ZenerConstant / response, in mV
ZenerVoltage(response) == (1023 * 3 * 1000) \div response

\* 'if response > 1022: response = 1022' and 'if response < 1: response = 1'
Clamp(response) ==
  IF response > 1022 THEN 1022 ELSE IF response < 1 THEN 1 ELSE response

\* LDRPullupResistance / ((1023. / response) - 1.), in ohm
LDRResistance(response) == (56000 * response) \div (1023 - response)

\* 1. / (log(1/((1023./response) - 1.)) / 3450. + 1. / 298.15), in mK, for
\* the raw values of the model's device
RainSensorTemp(response) ==
  CASE response = 1 -> 743239
    [] response = 256 -> 329385
    [] response = 512 -> 298099
    [] response = 768 -> 272213
    [] response = 1022 -> 186477

\* 100. * float(result) / 1023., in thousandths of a percent
PWMPercent(res) == (100000 * res) \div 1023

\* ' '.join(error_vals) of the stripped values
RECURSIVE Join(_)
Join(l) ==
  IF l = <<>> THEN <<>>
  ELSE IF Len(l) = 1 THEN Strip(l[1])
  ELSE Strip(l[1]) \o <<" ">> \o Join(Tail(l))

(***************************************************************************)
(* The device: the frames it may answer a command with                     *)
(***************************************************************************)
HandshakeBlock == <<"!", DC1>> \o Repeat(" ", 12) \o <<"0">>
\* a 15-byte block that is no handshake
BrokenHandshake == <<"!", DC1>> \o Repeat(" ", 12) \o <<"1">>

\* a 15-byte block: the prefix, then the text right-aligned
Block(prefix, text) == prefix \o Repeat(" ", 15 - Len(prefix) - Len(text)) \o text
\* a 15-byte block: the prefix, then the text left-aligned
BlockL(prefix, text) == prefix \o text \o Repeat(" ", 15 - Len(prefix) - Len(text))

\* the callers that run the script: run after run ("main"), or one run with
\* the serial line metered ("cycle")
Script(c) == c \in {"main", "cycle"}

\* raw values the device reports, per caller (the unit callers see more)
AmbientRaws(c) == IF Script(c) THEN {1000} ELSE {0, 990, 1010}
SkyRaws(c) == IF Script(c) THEN {2000} ELSE {0, 1990, 2010}
ValueRaws(c) ==
  IF Script(c) THEN {<<512, 512, 512>>}
  ELSE {<<512, 512, 512>>, <<256, 1023, 768>>, <<0, 0, 0>>}
PWMRaws(c) == IF Script(c) THEN {512} ELSE {0, 512}

\* the payload blocks of the well-formed answers to a command
Payloads(c, cmd) ==
  CASE cmd = "!A" -> {Block(<<"!", "N">>, <<"C", "l", "o", "u", "d", "W">>)}
    [] cmd = "!B" -> {Block(<<"!", "V">>, <<"5", ".", "6">>)}
    [] cmd = "!K" -> {BlockL(<<"!", "K">>, <<"1", "2", "3", "4">>)}
    [] cmd = "!T" -> {Block(<<"!", "2">>, Format(r)) : r \in AmbientRaws(c)}
    [] cmd = "!S" -> {Block(<<"!", "1">>, Format(r)) : r \in SkyRaws(c)}
    [] cmd = "!C" -> {Block(<<"!", "6">>, Format(v[1])) \o Block(<<"!", "4">>, Format(v[2]))
                        \o Block(<<"!", "5">>, Format(v[3])) : v \in ValueRaws(c)}
    [] cmd = "!Q" -> {Block(<<"!", "Q">>, Format(r)) : r \in PWMRaws(c)}
    [] cmd = "!D" -> {Block(<<"!", "E", "1">>, <<"0">>) \o Block(<<"!", "E", "2">>, <<"0">>)
                        \o Block(<<"!", "E", "3">>, <<"0">>) \o Block(<<"!", "E", "4">>, <<"7">>)}
    [] cmd = "!F" -> {Block(<<"!", "X">>, <<>>), Block(<<"!", "Y">>, <<>>)}
    [] cmd = "v!" -> {Block(<<"!", "v">>, <<"1">>), Block(<<"!", "v">>, <<"0">>)}
    [] cmd = "V!" -> {Block(<<"!", "w">>, <<"1", "2">>)}

Reversed(cmd) == cmd \in {"v!", "V!"}

\* a payload no pattern of the code accepts
Garbled(cmd) == Block(<<"?", "?">>, <<>>)

\* well-formed frames: payload then handshake, or handshake then payload
GoodFrames(c, cmd) ==
  IF Reversed(cmd) THEN {HandshakeBlock \o p : p \in Payloads(c, cmd)}
  ELSE {p \o HandshakeBlock : p \in Payloads(c, cmd)}

\* frames with only the handshake broken
BadHandshakeFrames(c, cmd) ==
  IF Reversed(cmd) THEN {BrokenHandshake \o p : p \in Payloads(c, cmd)}
  ELSE {p \o BrokenHandshake : p \in Payloads(c, cmd)}

\* well-formed blocks in the order of the other kind of frame
SwappedFrames(c, cmd) ==
  IF Reversed(cmd) THEN {p \o HandshakeBlock : p \in Payloads(c, cmd)}
  ELSE {HandshakeBlock \o p : p \in Payloads(c, cmd)}

\* frames with only the payload broken
BadPayloadFrames(c, cmd) ==
  IF Reversed(cmd) THEN {HandshakeBlock \o Garbled(cmd)}
  ELSE {Garbled(cmd) \o HandshakeBlock}

\* well-formed frames whose value is negative: a sky temperature of -5.00 C,
\* a composite answer with a negative second value
NegativeFrames(c, cmd) ==
  CASE cmd = "!S" -> {Block(<<"!", "1">>, <<"-", "5", "0", "0">>) \o HandshakeBlock}
    [] cmd = "!C" -> {Block(<<"!", "6">>, Format(512)) \o Block(<<"!", "4">>, <<"-", "1">>)
                        \o Block(<<"!", "5">>, Format(512)) \o HandshakeBlock}
    [] OTHER -> {}

\* nothing before the read timeout
Timeout == <<>>

\* lists of prefixes a direct caller may expect: the two of the program, and
\* lists with prefixes of different lengths
PatternLists ==
  {<<<<"!", "6">>, <<"!", "4">>, <<"!", "5">>>>,
   <<<<"!", "E", "1">>, <<"!", "E", "2">>, <<"!", "E", "3">>, <<"!", "E", "4">>>>,
   <<<<"!", "6">>, <<"!", "E", "2">>>>,
   <<<<"!", "E", "1">>, <<"!", "4">>>>,
   <<<<"!", "6">>, <<"!", "E", "2">>, <<"!", "5">>>>,
   <<<<"!", "E", "1">>, <<"!", "4">>, <<"!", "5">>>>}

\* a payload of one field per prefix, from the k-th on: the prefix, then the
\* number of the field right-aligned in w characters
RECURSIVE Fields(_, _, _)
Fields(l, w, k) ==
  IF k > Len(l) THEN <<>>
  ELSE l[k] \o Repeat(" ", w - 1) \o <<DigitChar(k)>> \o Fields(l, w, k + 1)

\* a payload of one 15-byte block per prefix, from the k-th on
RECURSIVE Blocks(_, _)
Blocks(l, k) ==
  IF k > Len(l) THEN <<>>
  ELSE Block(l[k], <<DigitChar(k)>>) \o Blocks(l, k + 1)

\* what a device may answer a direct caller's list with: fields of 11, 12 or
\* 13 characters, or blocks of 15 bytes, then the handshake block; or nothing
PatternFrames ==
  {Fields(l, w, 1) \o HandshakeBlock : l \in PatternLists, w \in 11..13}
    \cup {Blocks(l, 1) \o HandshakeBlock : l \in PatternLists}
    \cup {Timeout}

\* what the device may put on the line in answer to cmd
DeviceFrames(c, cmd) ==
  CASE Script(c) -> GoodFrames(c, cmd) \cup {Timeout}
    [] c = "method" -> GoodFrames(c, cmd) \cup BadPayloadFrames(c, cmd) \cup {Timeout}
    [] c = "pattern" -> PatternFrames
    [] OTHER ->
         GoodFrames(c, cmd) \cup BadHandshakeFrames(c, cmd) \cup BadPayloadFrames(c, cmd)
           \cup SwappedFrames(c, cmd) \cup NegativeFrames(c, cmd)
           \cup {Timeout, HandshakeBlock, Garbled(cmd) \o BrokenHandshake,
                 <<BadByte>> \o HandshakeBlock}

(***************************************************************************)
(* The telemetry store                                                     *)
(***************************************************************************)
ConditionNames == <<"Timestamp", "Safe">>
TelemetryNames ==
  <<"Timestamp", "Safe", "Ambient Temperature", "Sky Temperature", "Wind Speed",
    "Internal Voltage", "LDR Resistance", "Rain Sensor Temperature", "PWM",
    "Errors", "Switch">>

\* no file at the path
NoFile == <<>>
\* a variant of Exists that never finds the file (sensitivity of C9)
ExistsNever(file) == FALSE

\* os.path.exists
Exists(file) == file # NoFile

\* table.Table(names=..., dtype=...)
NewTable(names) == [names |-> names, rows |-> <<>>]
\* a variant of AddRow that repeats the last row of the table when there is
\* one (sensitivity of C25)
AddRowStale(t, new_row) ==
  [t EXCEPT !.rows =
     Append(@, IF @ # <<>> THEN @[Len(@)]
               ELSE [k \in 1..Len(t.names) |-> new_row[t.names[k]]])]
\* Table.add_row(dict): the values in the order of the table's columns
AddRow(t, new_row) ==
  [t EXCEPT !.rows = Append(@, [k \in 1..Len(t.names) |-> new_row[t.names[k]]])]
\* ascii.write(table, file, format='basic'): a header line, then a line a row
WriteTable(t) == <<t.names>> \o t.rows
\* ascii.read(file, format='basic'): the first line names the columns
ReadTable(file) == [names |-> file[1], rows |-> Tail(file)]
\* read_AAG_telemetry: as ReadTable, the columns renamed by names=
ReadTelemetry(file) == [names |-> TelemetryNames, rows |-> Tail(file)]

\* last_update.strftime('%Y/%m/%d %H:%M:%S UT'); AttributeError on None
Strftime(t) == IF t = None THEN Err("AttributeError") ELSE Ok([UT |-> t[1]])

\* quantity.value: AttributeError on None
Value(q) == IF q = None THEN Err("AttributeError") ELSE Ok(q[1])

(***************************************************************************)
(* State                                                                   *)
(***************************************************************************)
VARIABLES
  caller,          \* who drives the object: "main" (the script), or a direct
                   \* call of "query" or of a measurement "method"
  meter,           \* the writes on the serial line since update_weather was
                   \* entered, where the line is metered (None where not)
  pc,              \* where the program is
  error,           \* the exception that ended the process ("" for none)
  clock,           \* the UTC time, in process starts
  AAG,             \* self.AAG: TRUE for an open serial.Serial, FALSE for None
  self,            \* the other attributes of the sensor object
  call,            \* the arguments of the running query / reversed_query
  tries,           \* its local tries
  result,          \* its local result
  responseString,  \* its local responseString
  last,            \* the last write/read exchange with the transport: the call
                   \* it belongs to, its number in the call and its outcome
  i,               \* the loop index of a measurement method
  lists,           \* the sample lists of the running measurement method
  sw,              \* the locals of get_switch
  event,           \* the method that returned in the last step ("" for none)
  condition_file,  \* the lines of self.condition_file
  telemetry_file   \* the lines of self.telemetry_file

vars == <<caller, meter, pc, error, clock, AAG, self, call, tries, result,
          responseString, last, i, lists, sw, event, condition_file,
          telemetry_file>>

\* the number of process starts the model follows
MaxRuns == 2
\* the largest max_tries a direct call of query is given
MaxTries == 3
\* the bytes that may wait on the serial line when it is opened, at most
MaxStale == 1

NoCall == [fn |-> "", send |-> "", expect |-> Str(<<>>), max_tries |-> 0]
NoExchange == [call |-> NoCall, n |-> 0, exchanges |-> 0, ops |-> <<>>,
               accepted |-> FALSE, returned |-> FALSE, value |-> None]
EmptyLists == [AmbTemps |-> <<>>, SkyTemps |-> <<>>, internal_voltages |-> <<>>,
               LDR_resistances |-> <<>>, rain_sensor_temps |-> <<>>]
NoSwitch == [tries |-> 0, query_open |-> None, query_closed |-> None]

\* the attributes __init__ sets to None
InitialSelf ==
  [name |-> None, firmware_version |-> None, serial_number |-> None,
   last_update |-> None, safe |-> None, ambient_temp |-> None,
   sky_temp |-> None, wind_speed |-> None, internal_voltage |-> None,
   LDR_resistance |-> None, rain_sensor_temp |-> None, PWM |-> None,
   errors |-> None, switch |-> None]

\* the query each place of the program makes
Call(site) ==
  CASE site = "query_name" ->
         [fn |-> "query", send |-> "!A", expect |-> Str(<<"!", "N">>), max_tries |-> 5]
    [] site = "query_firmware" ->
         [fn |-> "query", send |-> "!B", expect |-> Str(<<"!", "V">>), max_tries |-> 5]
    [] site = "query_serial" ->
         [fn |-> "query", send |-> "!K",
          expect |-> Str(<<"!", "K", "(", "\\", "d", "{", "4", "}", ")">>),
          max_tries |-> 5]
    [] site = "get_ambient_temperature" ->
         [fn |-> "query", send |-> "!T", expect |-> Str(<<"!", "2">>), max_tries |-> 5]
    [] site = "get_sky_temperature" ->
         [fn |-> "query", send |-> "!S", expect |-> Str(<<"!", "1">>), max_tries |-> 5]
    [] site = "wind_speed_enabled" ->
         [fn |-> "reversed_query", send |-> "v!", expect |-> Str(<<"!", "v">>),
          max_tries |-> 5]
    [] site = "get_wind_speed" ->
         [fn |-> "reversed_query", send |-> "V!", expect |-> Str(<<"!", "w">>),
          max_tries |-> 5]
    [] site = "get_values" ->
         [fn |-> "query", send |-> "!C",
          expect |-> List(<<<<"!", "6">>, <<"!", "4">>, <<"!", "5">>>>),
          max_tries |-> 5]
    [] site = "get_PWM" ->
         [fn |-> "query", send |-> "!Q", expect |-> Str(<<"!", "Q">>), max_tries |-> 5]
    [] site = "get_errors" ->
         [fn |-> "query", send |-> "!D",
          expect |-> List(<<<<"!", "E", "1">>, <<"!", "E", "2">>, <<"!", "E", "3">>,
                            <<"!", "E", "4">>>>),
          max_tries |-> 5]
    [] site = "get_switch_open" ->
         [fn |-> "query", send |-> "!F", expect |-> Str(<<"!", "X">>), max_tries |-> 2]
    [] site = "get_switch_closed" ->
         [fn |-> "query", send |-> "!F", expect |-> Str(<<"!", "Y">>), max_tries |-> 2]
    [] OTHER -> NoCall

QuerySites ==
  {"query", "query_name", "query_firmware", "query_serial",
   "get_ambient_temperature", "get_sky_temperature", "wind_speed_enabled",
   "get_wind_speed", "get_values", "get_PWM", "get_errors", "get_switch_open",
   "get_switch_closed"}

\* the sample lists in scope at a place: a method's lists are its own
Scoped(l, site) ==
  CASE site = "get_ambient_temperature" -> [EmptyLists EXCEPT !.AmbTemps = l.AmbTemps]
    [] site = "get_sky_temperature" -> [EmptyLists EXCEPT !.SkyTemps = l.SkyTemps]
    [] site = "get_values" ->
         [EmptyLists EXCEPT !.internal_voltages = l.internal_voltages,
                            !.LDR_resistances = l.LDR_resistances,
                            !.rain_sensor_temps = l.rain_sensor_temps]
    [] OTHER -> EmptyLists

(***************************************************************************)
(* Control                                                                 *)
(***************************************************************************)
\* an uncaught exception ends the process
Raise(e) == pc' = "fault" /\ error' = e /\ event' = "" /\ UNCHANGED call

\* go on inside the running method
Stay(site) == pc' = site /\ call' = Call(site) /\ event' = "" /\ UNCHANGED error

\* a variant of Finish where update_weather decides before it reads the
\* switch (sensitivity of C27)
FinishBeforeSwitch(method, site) ==
  /\ event' = method
  /\ UNCHANGED error
  /\ IF Script(caller)
     THEN IF method = "get_errors"
          THEN pc' = "make_safety_decision" /\ call' = NoCall
          ELSE pc' = site /\ call' = Call(site)
     ELSE pc' = "returned" /\ UNCHANGED call

\* the method returns: to update_weather, which calls the next one, or to
\* the direct caller
Finish(method, site) ==
  /\ event' = method
  /\ UNCHANGED error
  /\ IF Script(caller) THEN pc' = site /\ call' = Call(site)
     ELSE pc' = "returned" /\ UNCHANGED call

files == <<condition_file, telemetry_file>>

data == <<self, i, lists, sw, condition_file, telemetry_file>>

\* a variant of Connected that lets a call through without a transport
\* (sensitivity of C28)
ConnectedAlways(transport) == TRUE

\* the truth of self.AAG: the serial object, or None
Connected(transport) == transport

\* 'assert self.AAG' of query and reversed_query
AssertFails ==
  /\ pc \in QuerySites
  /\ ~Connected(AAG)
  /\ Raise("AssertionError")
  /\ UNCHANGED <<caller, meter, clock, AAG, tries, result, responseString, last, data>>

(***************************************************************************)
(* __init__                                                                *)
(***************************************************************************)
\* clear_buffer: 'while self.AAG.inWaiting() > 0: self.AAG.read(1)', with
\* so many bytes waiting on the line
ClearBuffer(waiting) == [k \in 1..waiting |-> [op |-> "read", size |-> 1]]

\* serial.Serial(...) opens or raises; the attributes are set to None; an
\* open line is emptied of the bytes that wait on it
Construct ==
  /\ pc = "__init__"
  /\ \E opened \in BOOLEAN :
       /\ AAG' = opened
       /\ IF opened
          THEN /\ Stay("query_name")
               /\ \E waiting \in 0..MaxStale :
                    last' = [NoExchange EXCEPT !.ops = ClearBuffer(waiting)]
          ELSE /\ Stay("get_ambient_temperature")
               /\ last' = NoExchange
  /\ self' = InitialSelf
  /\ UNCHANGED <<caller, meter, clock, tries, result, responseString, i, lists,
                 sw, files>>

\* self.name = self.query('!A', '!N').strip()
ReturnName(v) ==
  IF v = None
  THEN Raise("AttributeError") /\ UNCHANGED data
  ELSE /\ self' = [self EXCEPT !.name = Some(Strip(v[1]))]
       /\ Stay("query_firmware")
       /\ UNCHANGED <<i, lists, sw, files>>

\* self.firmware_version = float(self.query('!B', '!V'))
ReturnFirmware(v) ==
  LET f == ParseFloat(v) IN
  IF f.error # ""
  THEN Raise(f.error) /\ UNCHANGED data
  ELSE /\ self' = [self EXCEPT !.firmware_version = Some(f.value)]
       /\ Stay("query_serial")
       /\ UNCHANGED <<i, lists, sw, files>>

\* self.serial_number = self.query('!K', '!K(\d{4})'); then the script calls
\* update_weather
ReturnSerial(v) ==
  /\ self' = [self EXCEPT !.serial_number = v]
  /\ Stay("get_ambient_temperature")
  /\ UNCHANGED <<i, lists, sw, files>>

(***************************************************************************)
(* The measurement methods                                                 *)
(***************************************************************************)
\* one pass of the loop of get_ambient_temperature, and after the fifth the
\* median
ReturnAmbient(v) ==
  LET response == ParseInt(v)
      AmbTemps == IF response.value # 0
                  THEN Append(lists.AmbTemps, Kelvin(response.value))
                  ELSE lists.AmbTemps
  IN  IF response.error # ""
      THEN Raise(response.error) /\ UNCHANGED data
      ELSE /\ lists' = [EmptyLists EXCEPT !.AmbTemps = AmbTemps]
           /\ IF i + 1 < 5
              THEN i' = i + 1 /\ Stay("get_ambient_temperature") /\ UNCHANGED self
              ELSE /\ i' = 0
                   /\ self' = [self EXCEPT !.ambient_temp = Aggregate(AmbTemps)]
                   /\ Finish("get_ambient_temperature", "get_sky_temperature")
           /\ UNCHANGED <<sw, files>>

\* one pass of the loop of get_sky_temperature, and after the fifth the median
ReturnSky(v) ==
  LET response == IF Truthy(v) THEN ParseFloat(v) ELSE Ok(None)
      SkyTemps == IF Truthy(v) THEN Append(lists.SkyTemps, Kelvin(response.value))
                  ELSE lists.SkyTemps
  IN  IF response.error # ""
      THEN Raise(response.error) /\ UNCHANGED data
      ELSE /\ lists' = [EmptyLists EXCEPT !.SkyTemps = SkyTemps]
           /\ IF i + 1 < 5
              THEN i' = i + 1 /\ Stay("get_sky_temperature") /\ UNCHANGED self
              ELSE /\ i' = 0
                   /\ self' = [self EXCEPT !.sky_temp = Aggregate(SkyTemps)]
                   /\ Finish("get_sky_temperature", "wind_speed_enabled")
           /\ UNCHANGED <<sw, files>>

\* wind_speed_enabled, and get_wind_speed when the anemometer is not enabled
ReturnWindEnabled(v) ==
  LET n == IF Truthy(v) THEN ParseInt(v) ELSE Ok(None)
  IN  IF n.error # ""
      THEN Raise(n.error) /\ UNCHANGED data
      ELSE /\ IF Truthy(v) /\ n.value = 1
              THEN Stay("get_wind_speed") /\ UNCHANGED self
              ELSE /\ self' = [self EXCEPT !.wind_speed = None]
                   /\ Finish("get_wind_speed", "get_values")
           /\ lists' = EmptyLists
           /\ UNCHANGED <<i, sw, files>>

\* get_wind_speed when the anemometer is enabled (in m/h)
ReturnWindSpeed(v) ==
  LET n == IF Truthy(v) THEN ParseInt(v) ELSE Ok(None)
  IN  IF n.error # ""
      THEN Raise(n.error) /\ UNCHANGED data
      ELSE /\ self' = [self EXCEPT !.wind_speed = IF Truthy(v) THEN Some(n.value * 1000)
                                                  ELSE None]
           /\ Finish("get_wind_speed", "get_values")
           /\ lists' = EmptyLists
           /\ UNCHANGED <<i, sw, files>>

\* one pass of the loop of get_values, and after the fifth the three medians
ReturnValues(v) ==
  IF v = None
  THEN Raise("TypeError") /\ UNCHANGED data
  ELSE
    LET responses == v[1]
        zener == ParseInt(Some(responses[1]))
        ldr == ParseInt(Some(responses[2]))
        rain == ParseInt(Some(responses[3]))
        internal_voltages ==
          IF zener.value # 0
          THEN Append(lists.internal_voltages, ZenerVoltage(zener.value))
          ELSE lists.internal_voltages
        LDR_resistances ==
          IF ldr.value # 0
          THEN Append(lists.LDR_resistances, LDRResistance(Clamp(ldr.value)))
          ELSE lists.LDR_resistances
        rain_sensor_temps ==
          IF rain.value # 0
          THEN Append(lists.rain_sensor_temps, RainSensorTemp(Clamp(rain.value)))
          ELSE lists.rain_sensor_temps
    IN  IF zener.error # "" \/ ldr.error # "" \/ rain.error # ""
        THEN Raise("ValueError") /\ UNCHANGED data
        ELSE /\ lists' = [EmptyLists EXCEPT !.internal_voltages = internal_voltages,
                                            !.LDR_resistances = LDR_resistances,
                                            !.rain_sensor_temps = rain_sensor_temps]
             /\ IF i + 1 < 5
                THEN i' = i + 1 /\ Stay("get_values") /\ UNCHANGED self
                ELSE /\ i' = 0
                     /\ self' = [self EXCEPT
                                   !.internal_voltage = Aggregate(internal_voltages),
                                   !.LDR_resistance = Aggregate(LDR_resistances),
                                   !.rain_sensor_temp = Aggregate(rain_sensor_temps)]
                     /\ Finish("get_values", "get_PWM")
             /\ UNCHANGED <<sw, files>>

\* get_PWM
ReturnPWM(v) ==
  LET res == ParseInt(v)
  IN  IF res.error # ""
      THEN Raise(res.error) /\ UNCHANGED data
      ELSE /\ self' = [self EXCEPT !.PWM =
                         IF res.value # 0 THEN Some(PWMPercent(res.value))
                         ELSE IF res.value = 0 THEN Some(PWMPercent(res.value))
                         ELSE None]
           /\ Finish("get_PWM", "get_errors")
           /\ lists' = EmptyLists
           /\ UNCHANGED <<i, sw, files>>

\* get_errors
ReturnErrors(v) ==
  /\ self' = [self EXCEPT !.errors = IF Truthy(v) THEN Some(Join(v[1])) ELSE None]
  /\ Finish("get_errors", "get_switch_open")
  /\ lists' = EmptyLists
  /\ UNCHANGED <<i, sw, files>>

\* a variant of ReturnSwitchOpen that ends the round when the '!X' probe
\* matched (sensitivity of C22)
ReturnSwitchOpenOnly(v) ==
  /\ sw' = [tries |-> sw.tries + 1, query_open |-> v, query_closed |-> None]
  /\ IF Truthy(v)
     THEN /\ self' = [self EXCEPT !.switch = Some("OPEN")]
          /\ Finish("get_switch", "make_safety_decision")
     ELSE Stay("get_switch_closed") /\ UNCHANGED self
  /\ lists' = EmptyLists
  /\ UNCHANGED <<i, files>>

\* get_switch: 'tries += 1' and the probe for '!X' of a round
ReturnSwitchOpen(v) ==
  /\ sw' = [tries |-> sw.tries + 1, query_open |-> v, query_closed |-> None]
  /\ Stay("get_switch_closed")
  /\ lists' = EmptyLists
  /\ UNCHANGED <<self, i, files>>

\* a variant of SwitchStatus where the '!X' probe alone decides
\* (sensitivity of C6)
SwitchStatusOpenFirst(query_open, query_closed) ==
  IF Truthy(query_open) THEN Some("OPEN")
  ELSE IF Truthy(query_closed) THEN Some("CLOSED")
  ELSE None

\* the status get_switch draws from the two probes of a round
SwitchStatus(query_open, query_closed) ==
  IF Truthy(query_open) /\ ~Truthy(query_closed) THEN Some("OPEN")
  ELSE IF ~Truthy(query_open) /\ Truthy(query_closed) THEN Some("CLOSED")
  ELSE None

\* a variant of SwitchGivesUp that allows one round more (sensitivity of C7)
SwitchGivesUpLate(status, n) == status = None /\ n >= 4

\* 'if not status and tries >= max_tries: status = 'UNKNOWN''
SwitchGivesUp(status, n) == status = None /\ n >= 3

\* get_switch: the probe for '!Y' of a round, and the end of the round
ReturnSwitchClosed(v) ==
  LET s == SwitchStatus(sw.query_open, v)
      status == IF SwitchGivesUp(s, sw.tries) THEN Some("UNKNOWN") ELSE s
  IN  /\ sw' = [sw EXCEPT !.query_closed = v]
      /\ IF status = None
         THEN Stay("get_switch_open") /\ UNCHANGED self
         ELSE /\ self' = [self EXCEPT !.switch = status]
              /\ Finish("get_switch", "make_safety_decision")
      /\ lists' = EmptyLists
      /\ UNCHANGED <<i, files>>

\* a direct call of query: the value goes to the caller
ReturnDirect(v) ==
  /\ pc' = "returned"
  /\ event' = "query"
  /\ lists' = EmptyLists
  /\ UNCHANGED <<error, call, self, i, sw, files>>

\* what the caller at a place of the program does with the value of its call
Return(site, v) ==
  CASE site = "query_name" -> ReturnName(v)
    [] site = "query_firmware" -> ReturnFirmware(v)
    [] site = "query_serial" -> ReturnSerial(v)
    [] site = "get_ambient_temperature" -> ReturnAmbient(v)
    [] site = "get_sky_temperature" -> ReturnSky(v)
    [] site = "wind_speed_enabled" -> ReturnWindEnabled(v)
    [] site = "get_wind_speed" -> ReturnWindSpeed(v)
    [] site = "get_values" -> ReturnValues(v)
    [] site = "get_PWM" -> ReturnPWM(v)
    [] site = "get_errors" -> ReturnErrors(v)
    [] site = "get_switch_open" -> ReturnSwitchOpen(v)
    [] site = "get_switch_closed" -> ReturnSwitchClosed(v)
    [] site = "query" -> ReturnDirect(v)

\* the meter after one more write: the queries of __init__ come before
\* update_weather and are not counted
Metered(m, site) ==
  IF m = None \/ site \in {"query_name", "query_firmware", "query_serial"} THEN m
  ELSE Some(m[1] + 1)

\* One pass of the loop of query / reversed_query made at a place of the
\* program: the command is written, the answer read and judged; when the
\* call returns, Return(site, value) is what its caller does with the value.
\* (query_open and query_closed of get_switch and the sample lists are the
\* caller's locals; the lists of a method that has returned are dropped.)
QueryAt(site) ==
  /\ pc = site
  /\ Connected(AAG)
  /\ \E sent \in DeviceFrames(caller, call.send) :
       \E a \in {Attempt(call, tries, sent)} :
       /\ responseString' = a.responseString
       /\ last' = [call |-> call, n |-> a.tries,
                   exchanges |-> IF tries = 0 THEN 1 ELSE last.exchanges + 1,
                   ops |-> Transport(call),
                   accepted |-> Truthy(a.result),
                   returned |-> a.error = "" /\ a.returned,
                   value |-> a.value]
       /\ IF a.error # ""
          THEN /\ Raise(a.error)
               /\ tries' = a.tries
               /\ UNCHANGED <<result, data>>
          ELSE IF ~a.returned
          THEN /\ tries' = a.tries
               /\ result' = a.result
               /\ lists' = Scoped(lists, site)
               /\ event' = ""
               /\ UNCHANGED <<pc, error, call, self, i, sw, files>>
          ELSE /\ tries' = 0
               /\ result' = None
               /\ Return(site, a.value)
  /\ meter' = Metered(meter, site)
  /\ UNCHANGED <<caller, clock, AAG>>

\* __init__: self.name = self.query('!A', '!N').strip()
QueryName == QueryAt("query_name")

\* __init__: self.firmware_version = float(self.query('!B', '!V'))
QueryFirmware == QueryAt("query_firmware")

\* __init__: self.serial_number = self.query('!K', '!K(\d{4})')
QuerySerial == QueryAt("query_serial")

\* get_ambient_temperature
GetAmbientTemperature == QueryAt("get_ambient_temperature")

\* get_sky_temperature
GetSkyTemperature == QueryAt("get_sky_temperature")

\* get_wind_speed: if AAG.wind_speed_enabled()
WindSpeedEnabled == QueryAt("wind_speed_enabled")

\* get_wind_speed: self.reversed_query('V!', '!w')
GetWindSpeed == QueryAt("get_wind_speed")

\* get_values
GetValues == QueryAt("get_values")

\* get_PWM
GetPWM == QueryAt("get_PWM")

\* get_errors
GetErrors == QueryAt("get_errors")

\* get_switch: query_open = self.query('!F', '!X', max_tries=2)
GetSwitchOpen == QueryAt("get_switch_open")

\* get_switch: query_closed = self.query('!F', '!Y', max_tries=2)
GetSwitchClosed == QueryAt("get_switch_closed")

(***************************************************************************)
(* The end of update_weather                                               *)
(***************************************************************************)
cpu == <<caller, meter, clock, AAG, call, tries, result, responseString, last, i, sw>>

\* a variant of SafetyVerdict that trusts an open switch (sensitivity of C15)
SafetyVerdictBySwitch(s) == IF s.switch = Some("OPEN") THEN "SAFE" ELSE "UNSAFE"

\* the verdict make_safety_decision draws from the readings of the object
SafetyVerdict(s) == "UNSAFE"

\* make_safety_decision (the locals of the calls that have returned are
\* dropped)
MakeSafetyDecision ==
  /\ pc = "make_safety_decision"
  /\ self' = [self EXCEPT !.safe = Some(SafetyVerdict(self))]
  /\ pc' = "utcnow"
  /\ event' = "make_safety_decision"
  /\ lists' = EmptyLists
  /\ sw' = NoSwitch
  /\ responseString' = <<>>
  /\ last' = NoExchange
  /\ call' = NoCall
  /\ UNCHANGED <<caller, meter, clock, AAG, tries, result, i, error, files>>

\* self.last_update = datetime.datetime.utcnow()
UtcNow ==
  /\ pc = "utcnow"
  /\ self' = [self EXCEPT !.last_update = Some(clock)]
  /\ pc' = "update_conditions"
  /\ event' = ""
  /\ UNCHANGED <<cpu, error, lists, files>>

\* update_telemetry_files, first half: the conditions file
UpdateConditions ==
  /\ pc = "update_conditions"
  /\ LET conditions == IF Exists(condition_file) THEN ReadTable(condition_file)
                       ELSE NewTable(ConditionNames)
         new_row == ("Timestamp" :> Strftime(self.last_update).value)
                      @@ ("Safe" :> self.safe)
     IN  condition_file' = WriteTable(AddRow(conditions, new_row))
  /\ pc' = "update_telemetry"
  /\ event' = "update_conditions"
  /\ UNCHANGED <<cpu, error, self, lists, telemetry_file>>

\* the dict new_row of the telemetry table, or the AttributeError of a
\* '.value' on None
TelemetryRow ==
  LET vals == <<Value(self.ambient_temp), Value(self.sky_temp), Value(self.wind_speed),
                Value(self.internal_voltage), Value(self.LDR_resistance),
                Value(self.rain_sensor_temp)>>
  IN  IF \E k \in 1..Len(vals) : vals[k].error # "" THEN Err("AttributeError")
      ELSE Ok(("Timestamp" :> Strftime(self.last_update).value) @@ ("Safe" :> self.safe)
              @@ ("Ambient Temperature" :> vals[1].value)
              @@ ("Sky Temperature" :> vals[2].value)
              @@ ("Wind Speed" :> vals[3].value)
              @@ ("Internal Voltage" :> vals[4].value)
              @@ ("LDR Resistance" :> vals[5].value)
              @@ ("Rain Sensor Temperature" :> vals[6].value)
              @@ ("PWM" :> self.PWM) @@ ("Errors" :> self.errors)
              @@ ("Switch" :> self.switch))

\* update_telemetry_files, second half: the telemetry file
UpdateTelemetry ==
  /\ pc = "update_telemetry"
  /\ LET telemetry == IF Exists(telemetry_file) THEN ReadTelemetry(telemetry_file)
                      ELSE NewTable(TelemetryNames)
         new_row == TelemetryRow
     IN  IF new_row.error # ""
         THEN Raise(new_row.error) /\ UNCHANGED telemetry_file
         ELSE /\ telemetry_file' = WriteTable(AddRow(telemetry, new_row.value))
              /\ pc' = "done"
              /\ event' = "update_telemetry"
              /\ UNCHANGED <<error, call>>
  /\ UNCHANGED <<caller, meter, clock, AAG, tries, result, responseString, last, i, sw,
                 self, lists, condition_file>>

\* the script is run again (a new process; the files stay)
StartProcess ==
  /\ caller = "main"
  /\ pc \in {"done", "fault"}
  /\ clock < MaxRuns
  /\ clock' = clock + 1
  /\ pc' = "__init__"
  /\ error' = ""
  /\ AAG' = FALSE
  /\ self' = InitialSelf
  /\ call' = NoCall
  /\ tries' = 0
  /\ result' = None
  /\ responseString' = <<>>
  /\ last' = NoExchange
  /\ i' = 0
  /\ lists' = EmptyLists
  /\ sw' = NoSwitch
  /\ event' = ""
  /\ UNCHANGED <<caller, meter, files>>

(***************************************************************************)
(* Specifications                                                          *)
(***************************************************************************)
Fresh ==
  /\ error = ""
  /\ clock = 1
  /\ self = InitialSelf
  /\ tries = 0
  /\ result = None
  /\ responseString = <<>>
  /\ last = NoExchange
  /\ i = 0
  /\ lists = EmptyLists
  /\ sw = NoSwitch
  /\ event = ""
  /\ condition_file = NoFile
  /\ telemetry_file = NoFile

\* the script: AAGCloudSensor(...) then update_weather(), run after run
Init ==
  /\ caller = "main"
  /\ meter = None
  /\ pc = "__init__"
  /\ AAG = FALSE
  /\ call = NoCall
  /\ Fresh

Next ==
  \/ Construct
  \/ QueryName
  \/ QueryFirmware
  \/ QuerySerial
  \/ GetAmbientTemperature
  \/ GetSkyTemperature
  \/ WindSpeedEnabled
  \/ GetWindSpeed
  \/ GetValues
  \/ GetPWM
  \/ GetErrors
  \/ GetSwitchOpen
  \/ GetSwitchClosed
  \/ MakeSafetyDecision
  \/ UtcNow
  \/ UpdateConditions
  \/ UpdateTelemetry
  \/ AssertFails
  \/ StartProcess

Spec == Init /\ [][Next]_vars

\* one run of the script with the serial line metered
InitCycle ==
  /\ caller = "cycle"
  /\ meter = Some(0)
  /\ pc = "__init__"
  /\ AAG = FALSE
  /\ call = NoCall
  /\ Fresh

NextCycle ==
  \/ Construct
  \/ QueryName
  \/ QueryFirmware
  \/ QuerySerial
  \/ GetAmbientTemperature
  \/ GetSkyTemperature
  \/ WindSpeedEnabled
  \/ GetWindSpeed
  \/ GetValues
  \/ GetPWM
  \/ GetErrors
  \/ GetSwitchOpen
  \/ GetSwitchClosed
  \/ MakeSafetyDecision
  \/ UtcNow
  \/ UpdateConditions
  \/ UpdateTelemetry
  \/ AssertFails

SpecCycle == InitCycle /\ [][NextCycle]_vars

\* the calls of query and reversed_query the program makes, with any
\* max_tries from 1 to MaxTries
QueryCalls ==
  {[Call(site) EXCEPT !.max_tries = m] :
     site \in QuerySites \ {"query"}, m \in 1..MaxTries}

\* one direct call of query or reversed_query on a connected sensor
InitQuery ==
  /\ caller = "query"
  /\ meter = None
  /\ pc = "query"
  /\ AAG = TRUE
  /\ call \in QueryCalls
  /\ Fresh

Query == QueryAt("query")

NextQuery == Query

SpecQuery == InitQuery /\ [][NextQuery]_vars

\* direct calls of query with a list of prefixes
PatternCalls ==
  {[fn |-> "query", send |-> "!C", expect |-> List(l), max_tries |-> m] :
     l \in PatternLists, m \in 1..MaxTries}

InitPattern ==
  /\ caller = "pattern"
  /\ meter = None
  /\ pc = "query"
  /\ AAG = TRUE
  /\ call \in PatternCalls
  /\ Fresh

NextPattern == Query

SpecPattern == InitPattern /\ [][NextPattern]_vars

\* one direct call of an aggregating measurement method on a connected sensor
InitMethod ==
  /\ caller = "method"
  /\ meter = None
  /\ pc \in {"get_ambient_temperature", "get_sky_temperature", "get_values"}
  /\ AAG = TRUE
  /\ call = Call(pc)
  /\ Fresh

NextMethod ==
  \/ GetAmbientTemperature
  \/ GetSkyTemperature
  \/ GetValues

SpecMethod == InitMethod /\ [][NextMethod]_vars

(***************************************************************************)
(* Properties                                                              *)
(***************************************************************************)
\* the last exchange was made by query (not reversed_query)
Judged == last.exchanges >= 1 /\ last.call.fn = "query"
HandshakePart == LastN(responseString, 15)
PayloadPart == ButLastN(responseString, 15)

\* C1: whatever the command, the pattern and max_tries >= 1, a query whose
\* attempts are all rejected makes exactly max_tries exchanges, never fewer
\* and never more, and then returns None.
C1_AbsentAfterExactlyMaxTries ==
  Judged =>
    /\ last.exchanges <= last.call.max_tries
    /\ (last.returned /\ last.value = None) =>
         (last.exchanges = last.call.max_tries /\ pc = "returned")
    /\ (~last.accepted /\ error = "" /\ last.exchanges < last.call.max_tries) =>
         (~last.returned /\ pc = "query")
    /\ (~last.accepted /\ error = "" /\ last.exchanges = last.call.max_tries) =>
         (last.returned /\ last.value = None)

C1_Witness ==
  /\ Judged /\ pc = "returned" /\ last.value = None
  /\ last.call.send = "!T" /\ last.call.max_tries = 3 /\ last.exchanges = 3

\* the prefix a well-formed payload for the call begins with
ExpectedPrefix(c) ==
  IF c.expect.type = "list" THEN c.expect.val[1] ELSE SubSeq(c.expect.val, 1, 2)

\* the device's well-formed payloads that answer the call
ValidPayloads(c) ==
  {p \in Payloads("query", c.send) :
     SubSeq(p, 1, Len(ExpectedPrefix(c))) = ExpectedPrefix(c)}

\* C2: an attempt is accepted if and only if the last 15 bytes are the
\* handshake sentinel and the bytes before them are a payload of the expected
\* shape; a good handshake with a bad payload is rejected, and so is a good
\* payload with a bad handshake.
C2_AcceptedIffHandshakeAndPayload ==
  Judged =>
    (last.accepted <=>
       (HandshakePart = HandshakeBlock /\ PayloadPart \in ValidPayloads(last.call)))

C2_Witness ==
  /\ Judged /\ ~last.accepted
  /\ HandshakePart = BrokenHandshake
  /\ PayloadPart \in ValidPayloads(last.call)

\* the captures of a well-formed frame, read off the frame by position
Captures(c, frame) ==
  IF c.expect.type = "list"
  THEN [k \in 1..Len(c.expect.val) |->
          SubSeq(frame, 15 * (k - 1) + Len(c.expect.val[k]) + 1, 15 * k)]
  ELSE IF Len(c.expect.val) > 2 THEN SubSeq(frame, 3, 6)
  ELSE SubSeq(frame, 3, 15)

\* C3: query stops at the first accepted attempt and returns the captures of
\* that attempt only: the one string itself for a single field, the ordered
\* list of all the fields for several; nothing is returned from a rejected
\* attempt, and the loop goes on only after a rejected one.
C3_FirstAcceptedAttemptReturned ==
  Judged =>
    /\ last.accepted =>
         /\ pc = "returned" /\ last.returned
         /\ last.value = Some(Captures(last.call, responseString))
         /\ last.call.expect.type = "list" =>
              Len(last.value[1]) = Len(last.call.expect.val)
    /\ (last.returned /\ last.value # None) => last.accepted
    /\ pc = "query" => ~last.accepted

C3_Witness ==
  /\ Judged /\ pc = "returned" /\ last.accepted
  /\ last.call.send = "!C" /\ last.exchanges = 2
  /\ Len(last.value[1]) = 3

\* the p-th smallest sample of s
Kth(s, p) ==
  CHOOSE x \in {s[k] : k \in 1..Len(s)} :
    /\ Cardinality({k \in 1..Len(s) : s[k] < x}) < p
    /\ Cardinality({k \in 1..Len(s) : s[k] <= x}) >= p

\* the field a method must leave for the samples s: twice the median (the sum
\* of the two middle samples) of four or five samples, None of fewer
Aggregated(s) ==
  IF Len(s) >= 4
  THEN Some(Kth(s, (Len(s) + 1) \div 2) + Kth(s, Len(s) \div 2 + 1))
  ELSE None

\* C4: when a measurement method has finished, each field it sets is the
\* median of the samples of this call if there are at least 4 of them (the
\* mean of the two middle ones for 4), and None if there are 3 or fewer.
C4_MedianOfQuorum ==
  /\ event = "get_ambient_temperature" =>
       self.ambient_temp = Aggregated(lists.AmbTemps)
  /\ event = "get_sky_temperature" =>
       self.sky_temp = Aggregated(lists.SkyTemps)
  /\ event = "get_values" =>
       /\ self.internal_voltage = Aggregated(lists.internal_voltages)
       /\ self.LDR_resistance = Aggregated(lists.LDR_resistances)
       /\ self.rain_sensor_temp = Aggregated(lists.rain_sensor_temps)
  /\ \A l \in {lists.AmbTemps, lists.SkyTemps, lists.internal_voltages,
               lists.LDR_resistances, lists.rain_sensor_temps} : Len(l) <= 5

C4_Witness ==
  /\ event = "get_ambient_temperature"
  /\ Len(lists.AmbTemps) = 4
  /\ self.ambient_temp = Some(Kelvin(990) + Kelvin(1010))

\* C5: in get_ambient_temperature, get_sky_temperature and get_values a query
\* that returns None contributes no sample and does not abort: the process
\* does not end at a query of these methods that returned None.
C5_AbsentQueryDoesNotAbort ==
  ~(/\ pc = "fault"
    /\ last.returned /\ last.value = None
    /\ last.call.send \in {"!T", "!S", "!C"})

\* whether a probe of get_switch matched
Matched(probe) == probe # None
Conclusive(s) == Matched(s.query_open) # Matched(s.query_closed)

\* C6: get_switch resolves from the first conclusive round: OPEN if only the
\* '!X' probe matched, CLOSED if only the '!Y' probe matched, and no round
\* follows a conclusive one; a round where both or neither matched yields
\* neither OPEN nor CLOSED.
C6_SwitchFirstConclusiveRound ==
  /\ event = "get_switch" =>
       /\ self.switch = Some("OPEN") <=>
            (Matched(sw.query_open) /\ ~Matched(sw.query_closed))
       /\ self.switch = Some("CLOSED") <=>
            (~Matched(sw.query_open) /\ Matched(sw.query_closed))
  /\ (pc = "get_switch_open" /\ sw.tries >= 1) => ~Conclusive(sw)
  /\ (pc = "get_switch_closed" /\ tries = 0 /\ Matched(sw.query_open)) =>
       HandshakePart = HandshakeBlock /\ SubSeq(PayloadPart, 1, 2) = <<"!", "X">>

C6_Witness ==
  /\ event = "get_switch"
  /\ self.switch = Some("CLOSED")
  /\ sw.tries = 2

\* C7: get_switch ends within 3 rounds: it never starts a 4th round, it
\* resolves to UNKNOWN exactly when 3 rounds in a row were inconclusive, and
\* the switch it leaves is OPEN, CLOSED or UNKNOWN, never None.
C7_SwitchWithinThreeRounds ==
  /\ sw.tries <= 3
  /\ pc = "get_switch_open" => sw.tries <= 2
  /\ event = "get_switch" =>
       /\ self.switch \in {Some("OPEN"), Some("CLOSED"), Some("UNKNOWN")}
       /\ self.switch = Some("UNKNOWN") <=> (sw.tries = 3 /\ ~Conclusive(sw))

C7_Witness ==
  /\ event = "get_switch"
  /\ self.switch = Some("UNKNOWN")
  /\ sw.tries = 3
  /\ Matched(sw.query_open) /\ Matched(sw.query_closed)

\* C8: with no transport (the serial port could not be opened) a polling
\* cycle skips every query and does not fault.
C8_OfflineDoesNotFault == (pc # "__init__" /\ ~AAG) => pc # "fault"

\* the rows a read-back of a log gives (none when there is no file)
Rows(file) == IF Exists(file) THEN ReadTable(file).rows ELSE <<>>

\* a step that changes the log appends one row to it: the rows read back
\* before are still there, unchanged and in place, with one more at the end
Appends(file, file2, names) ==
  file2 # file =>
    /\ file2[1] = names
    /\ Len(Rows(file2)) = Len(Rows(file)) + 1
    /\ SubSeq(Rows(file2), 1, Len(Rows(file))) = Rows(file)

LastRow(file) == Rows(file)[Len(Rows(file))]

\* C10: a polling cycle that gets to update_telemetry_files appends one row
\* to the condition log and one to the telemetry log, with the same Timestamp
\* and the same Safe.
C10_OneRowInEachLog ==
  (pc \in {"done", "fault"} /\ self.last_update # None) =>
    /\ Rows(condition_file) # <<>> /\ Rows(telemetry_file) # <<>>
    /\ LastRow(condition_file)[1] = Strftime(self.last_update).value
    /\ LastRow(telemetry_file)[1] = LastRow(condition_file)[1]
    /\ LastRow(telemetry_file)[2] = LastRow(condition_file)[2]

\* the readings update_telemetry_files reads '.value' of
Readings ==
  <<self.ambient_temp, self.sky_temp, self.wind_speed, self.internal_voltage,
    self.LDR_resistance, self.rain_sensor_temp>>

\* C11: a cycle that gets to update_telemetry_files with a reading that is
\* None (quorum not met, or no wind speed) runs to its end and appends the
\* telemetry row of the cycle, the column of that reading empty.
C11_NullReadingPersisted ==
  (/\ pc \in {"done", "fault"}
   /\ self.last_update # None
   /\ \E k \in 1..6 : Readings[k] = None) =>
    /\ pc = "done"
    /\ Rows(telemetry_file) # <<>>
    /\ LastRow(telemetry_file)[1] = Strftime(self.last_update).value
    /\ \A k \in 1..6 : Readings[k] = None => LastRow(telemetry_file)[k + 2] = None

\* C12: in get_PWM, get_errors and get_wind_speed a query that returns None
\* leaves the field None and the method returns: the process does not end at
\* a query of these methods that returned None.
C12_SingleShotAbsentDoesNotRaise ==
  ~(/\ pc = "fault"
    /\ last.returned /\ last.value = None
    /\ last.call.send \in {"!Q", "!D", "v!", "V!"})

\* C13: on a connected sensor __init__ completes when the query of the name,
\* of the firmware version or of the serial number returns None: the process
\* does not end at a query of __init__ that returned None.
C13_ConstructionSurvivesAbsentQuery ==
  ~(/\ pc = "fault"
    /\ last.returned /\ last.value = None
    /\ last.call.send \in {"!A", "!B", "!K"})

\* the writes update_weather may have made when the program is at a place:
\* 25 for the ambient temperature, 25 for the sky temperature, 5 for the
\* anemometer probe, 5 for the wind speed, 25 for the values, 5 for the PWM,
\* 5 for the errors and 12 for the switch
Budget(place) ==
  CASE place \in {"__init__", "query_name", "query_firmware", "query_serial"} -> 0
    [] place = "get_ambient_temperature" -> 25
    [] place = "get_sky_temperature" -> 50
    [] place = "wind_speed_enabled" -> 55
    [] place = "get_wind_speed" -> 60
    [] place = "get_values" -> 85
    [] place = "get_PWM" -> 90
    [] place = "get_errors" -> 95
    [] OTHER -> 107

\* the steps the run of the script can still take from its state, at most:
\* the attempts left to the running call, the calls left to the running
\* method, the methods after it and the four steps that end update_weather
StepsLeft ==
  CASE pc = "__init__" -> 127
    [] pc = "query_name" -> (5 - tries) + 121
    [] pc = "query_firmware" -> (5 - tries) + 116
    [] pc = "query_serial" -> (5 - tries) + 111
    [] pc = "get_ambient_temperature" -> IF AAG THEN (5 - i) * 5 - tries + 86 ELSE 1
    [] pc = "get_sky_temperature" -> (5 - i) * 5 - tries + 61
    [] pc = "wind_speed_enabled" -> (5 - tries) + 56
    [] pc = "get_wind_speed" -> (5 - tries) + 51
    [] pc = "get_values" -> (5 - i) * 5 - tries + 26
    [] pc = "get_PWM" -> (5 - tries) + 21
    [] pc = "get_errors" -> (5 - tries) + 16
    [] pc = "get_switch_open" -> (2 - tries) + 2 + 4 * (2 - sw.tries) + 4
    [] pc = "get_switch_closed" -> (2 - tries) + 4 * (3 - sw.tries) + 4
    [] pc = "make_safety_decision" -> 4
    [] pc = "utcnow" -> 3
    [] pc = "update_conditions" -> 2
    [] pc = "update_telemetry" -> 1
    [] OTHER -> 0

\* C14: whatever the device answers, a polling cycle ends (completes or
\* faults): every step leaves fewer steps to take; and at every place it has
\* made no more writes on the serial line than the budget of the place, 107
\* in all.
C14_CycleWithin107Exchanges ==
  [][/\ StepsLeft' < StepsLeft
     /\ StepsLeft' >= 0
     /\ meter' # None /\ meter'[1] <= Budget(pc')]_vars

C14_Witness ==
  /\ pc = "done"
  /\ meter = Some(107)
  /\ self.switch = Some("UNKNOWN")

\* C15: the verdict is constant: once make_safety_decision has run the object
\* is UNSAFE whatever the readings are, and every row of the condition log
\* and of the telemetry log has Safe = UNSAFE.
C15_VerdictAlwaysUnsafe ==
  /\ self.safe \in {None, Some("UNSAFE")}
  /\ pc \in {"utcnow", "update_conditions", "update_telemetry", "done"} =>
       self.safe = Some("UNSAFE")
  /\ \A k \in 1..Len(Rows(condition_file)) :
       Rows(condition_file)[k][2] = Some("UNSAFE")
  /\ \A k \in 1..Len(Rows(telemetry_file)) :
       Rows(telemetry_file)[k][2] = Some("UNSAFE")

C15_Witness ==
  /\ Len(Rows(condition_file)) = 2
  /\ Len(Rows(telemetry_file)) = 2
  /\ Rows(telemetry_file)[1][11] = Some("OPEN")
  /\ Rows(telemetry_file)[2][11] = Some("CLOSED")

\* C16: for a list of prefixes every field is as wide as 15 less the length
\* of the SECOND prefix, whichever field it is: a frame is accepted exactly
\* when all its fields have that width, and every capture has that width.
C16_WidthFromSecondPrefix ==
  (Judged /\ last.call.expect.type = "list") =>
    LET l == last.call.expect.val
        w == 15 - Len(l[2])
    IN  /\ last.accepted <=> (responseString = Fields(l, w, 1) \o HandshakeBlock)
        /\ last.accepted =>
             \A k \in 1..Len(l) : Len(last.value[1][k]) = w

C16_Witness ==
  /\ Judged /\ last.accepted
  /\ last.call.expect.val = <<<<"!", "6">>, <<"!", "E", "2">>, <<"!", "5">>>>
  /\ \A k \in 1..3 : Len(last.value[1][k]) = 12

\* the last exchange was made by reversed_query
JudgedReversed == last.exchanges >= 1 /\ last.call.fn = "reversed_query"

\* C17: reversed_query accepts an attempt exactly when the 30 bytes read are
\* the handshake block and then a payload of the expected prefix with 13
\* characters; it stops at the first accepted attempt and returns these 13
\* characters; with every attempt rejected it makes exactly max_tries
\* exchanges and returns None.
C17_ReversedQueryDiscipline ==
  JudgedReversed =>
    /\ last.accepted <=>
         /\ Len(responseString) = 30
         /\ SubSeq(responseString, 1, 15) = HandshakeBlock
         /\ SubSeq(responseString, 16, 30) \in ValidPayloads(last.call)
    /\ last.accepted =>
         /\ pc = "returned" /\ last.returned
         /\ last.value = Some(SubSeq(responseString, 18, 30))
    /\ last.exchanges <= last.call.max_tries
    /\ (last.returned /\ last.value = None) =>
         (last.exchanges = last.call.max_tries /\ pc = "returned")
    /\ (~last.accepted /\ error = "" /\ last.exchanges < last.call.max_tries) =>
         (~last.returned /\ pc = "query")
    /\ (~last.accepted /\ error = "" /\ last.exchanges = last.call.max_tries) =>
         (last.returned /\ last.value = None)

C17_Witness ==
  /\ JudgedReversed /\ last.accepted
  /\ last.call.send = "v!" /\ last.call.max_tries = 3 /\ last.exchanges = 3
  /\ pc = "returned"

\* C18: in a polling cycle reversed_query is used for the anemometer probe
\* 'v!' alone; every other command, the wind speed 'V!' too, goes through
\* query.
C18_ReversedQueryOnlyForProbe ==
  /\ call.fn = "reversed_query" => call.send = "v!"
  /\ last.call.fn = "reversed_query" => last.call.send = "v!"

\* C19: a call of get_ambient_temperature, get_sky_temperature or get_values
\* issues its query 5 times whatever the outcomes: it does not end at an
\* earlier query, not even at one that returned None.
C19_FiveQueriesPerCall ==
  (/\ pc \in {"fault", "returned"}
   /\ last.returned
   /\ last.call.send \in {"!T", "!S", "!C"}) =>
    IF pc = "fault" THEN i + 1 = 5 ELSE event # ""

\* C20: every accepted numeric response of get_ambient_temperature and of
\* get_sky_temperature adds its calibrated sample to the list, a raw 0
\* (273.15 K) like any other.
C20_EveryResponseSampled ==
  /\ (last.call.send = "!T" /\ last.returned /\ last.value # None) =>
       /\ lists.AmbTemps # <<>>
       /\ lists.AmbTemps[Len(lists.AmbTemps)] = Kelvin(ParseInt(last.value).value)
  /\ (last.call.send = "!S" /\ last.returned /\ last.value # None) =>
       /\ lists.SkyTemps # <<>>
       /\ lists.SkyTemps[Len(lists.SkyTemps)] = Kelvin(ParseInt(last.value).value)

\* C21: in get_values the raw value of each of the three readings (zener
\* voltage, LDR resistance, rain-sensor NTC) is clamped into [1, 1022] before
\* its formula is applied: every accepted '!C' response adds, to each list,
\* the formula's value at the clamped raw value, a raw 0 counting as 1 and a
\* raw 1023 as 1022.
C21_RawValuesClamped ==
  (last.call.send = "!C" /\ last.returned /\ last.value # None) =>
    LET responses == last.value[1]
        zener == ParseInt(Some(responses[1])).value
        ldr == ParseInt(Some(responses[2])).value
        rain == ParseInt(Some(responses[3])).value
    IN  /\ lists.internal_voltages # <<>>
        /\ lists.internal_voltages[Len(lists.internal_voltages)]
             = ZenerVoltage(Clamp(zener))
        /\ lists.LDR_resistances # <<>>
        /\ lists.LDR_resistances[Len(lists.LDR_resistances)]
             = LDRResistance(Clamp(ldr))
        /\ lists.rain_sensor_temps # <<>>
        /\ lists.rain_sensor_temps[Len(lists.rain_sensor_temps)]
             = RainSensorTemp(Clamp(rain))

\* the exchanges get_switch can still make from its state, at most: the
\* attempts left to the running probe, the other probe of the round and the
\* two probes of each round left
SwitchLeft ==
  CASE pc = "get_switch_open" -> (2 - tries) + 2 + 4 * (2 - sw.tries)
    [] pc = "get_switch_closed" -> (2 - tries) + 4 * (3 - sw.tries)
    [] OTHER -> 0

\* C22: every round of get_switch issues both probes, the '!X' probe first
\* and the '!Y' probe second, also when the '!X' probe matched; each probe
\* makes at most 2 attempts; a call of get_switch starts with 12 exchanges
\* left and every exchange leaves fewer, so it makes at most 12.
C22_SwitchBothProbesWithin12 ==
  [][/\ (pc' = "get_switch_open" /\ pc \notin {"get_switch_open", "get_switch_closed"})
          => SwitchLeft' = 12
     /\ pc = "get_switch_open" =>
          /\ call = [fn |-> "query", send |-> "!F", expect |-> Str(<<"!", "X">>),
                     max_tries |-> 2]
          /\ pc' \in {"get_switch_open", "get_switch_closed"}
          /\ pc' = "get_switch_closed" =>
               (last'.returned /\ sw'.query_open = last'.value /\ tries' = 0)
     /\ pc = "get_switch_closed" =>
          /\ call = [fn |-> "query", send |-> "!F", expect |-> Str(<<"!", "Y">>),
                     max_tries |-> 2]
          /\ pc' \in {"get_switch_closed", "get_switch_open", "make_safety_decision"}
          /\ pc' # "get_switch_closed" => last'.returned
     /\ pc \in {"get_switch_open", "get_switch_closed"} =>
          /\ meter'[1] = meter[1] + 1
          /\ last'.exchanges <= 2
          /\ SwitchLeft' < SwitchLeft
          /\ SwitchLeft' >= 0]_vars

C22_Witness ==
  /\ event = "get_switch"
  /\ self.switch = Some("CLOSED")
  /\ Matched(sw.query_closed) /\ ~Matched(sw.query_open)
  /\ sw.tries = 3
  /\ last.exchanges = 2
  /\ meter = Some(107)

\* the characters the capture class [\s\w\d\.] admits
CaptureChars == Whitespace \cup Letters \cup Digits \cup {"."}

\* C23: for a single expected string of length <= 2 the payload must be the
\* prefix itself followed by 13 characters of the capture class, and these 13
\* characters are returned; a string of length > 2 is itself the pattern,
\* with nothing escaped and no capture appended: the payload must match it
\* and its own group is returned ('!K(\d{4})': '!K', four digits, and the
\* four digits are the result, whatever follows them).
C23_SingleFieldPattern ==
  (Judged /\ last.call.expect.type = "str") =>
    LET e == last.call.expect.val
    IN  IF Len(e) <= 2
        THEN /\ last.accepted <=>
                  /\ HandshakePart = HandshakeBlock
                  /\ Len(PayloadPart) >= Len(e) + 13
                  /\ SubSeq(PayloadPart, 1, Len(e)) = e
                  /\ \A k \in Len(e) + 1..Len(e) + 13 : PayloadPart[k] \in CaptureChars
             /\ last.accepted =>
                  last.value = Some(SubSeq(PayloadPart, Len(e) + 1, Len(e) + 13))
        ELSE /\ last.accepted <=>
                  (HandshakePart = HandshakeBlock /\ ReMatch(e, PayloadPart))
             /\ last.accepted =>
                  /\ last.value = Some(Group(e, PayloadPart, 1).value)
                  /\ e = <<"!", "K", "(", "\\", "d", "{", "4", "}", ")">> =>
                       /\ last.value = Some(SubSeq(PayloadPart, 3, 6))
                       /\ \A k \in 3..6 : PayloadPart[k] \in Digits

C23_Witness ==
  /\ Judged /\ last.accepted /\ pc = "returned"
  /\ last.call.send = "!K"
  /\ Len(last.call.expect.val) > 2
  /\ PayloadPart = <<"!", "K", "1", "2", "3", "4">> \o Repeat(" ", 9)
  /\ last.value = Some(<<"1", "2", "3", "4">>)

\* the number of fields a call expects
FieldCount(c) == IF c.expect.type = "list" THEN Len(c.expect.val) ELSE 1

\* a step of query or reversed_query on a connected sensor
Exchanging == pc \in QuerySites /\ AAG

\* what a pass of a query does on the serial line: the command is written
\* once, then (expected_field_count + 1) * 15 bytes are asked for once and no
\* more are got; a query that has made an exchange and not returned makes the
\* next exchange itself
ExchangeSerialized ==
  /\ last'.call = call
  /\ last'.ops = <<[op |-> "write", data |-> call.send],
                   [op |-> "read", size |-> (FieldCount(call) + 1) * 15]>>
  /\ Len(responseString') <= (FieldCount(call) + 1) * 15
  /\ meter'[1] - meter[1] =
       (IF pc \in {"query_name", "query_firmware", "query_serial"} THEN 0 ELSE 1)
  /\ tries # 0 => (last.call = call /\ ~last.returned)
  /\ (~last'.returned /\ error' = "") =>
       (pc' = pc /\ call' = call /\ tries' = tries + 1)
  /\ last'.returned => tries' = 0

\* a step that does nothing on the serial line
LineIdle ==
  /\ last' \in {last, NoExchange}
  /\ meter' = meter
  /\ responseString' \in {responseString, <<>>}

\* C24 as stated: in every execution the operations on the serial line
\* alternate write, read, write, read: every pass of a query writes once and
\* then reads (expected_field_count + 1) * 15 bytes once, no query's exchange
\* falls between two of another, and no other step touches the line.
C24_WriteThenReadSerialized ==
  [][IF Exchanging THEN ExchangeSerialized ELSE LineIdle]_vars

\* C24, amended: as stated, except that the constructor, before the first
\* write, reads the bytes waiting on the line one by one (clear_buffer);
\* these reads follow no write.
C24_SerializedAfterClearBuffer ==
  [][IF Exchanging THEN ExchangeSerialized
     ELSE IF pc = "__init__"
     THEN /\ \A k \in 1..Len(last'.ops) : last'.ops[k] = [op |-> "read", size |-> 1]
          /\ last'.ops # <<>> => AAG'
          /\ last'.exchanges = 0
          /\ meter' = meter /\ responseString' = responseString
     ELSE LineIdle]_vars

C24_Witness ==
  /\ last.call.send = "!D"
  /\ last.exchanges = 2
  /\ last.ops = <<[op |-> "write", data |-> "!D"], [op |-> "read", size |-> 75]>>
  /\ Len(responseString) = 75
  /\ last.returned

\* the places of the program where a field of the object is set
SetAt(field) ==
  CASE field = "ambient_temp" -> {"get_ambient_temperature"}
    [] field = "sky_temp" -> {"get_sky_temperature"}
    [] field = "wind_speed" -> {"wind_speed_enabled", "get_wind_speed"}
    [] field \in {"internal_voltage", "LDR_resistance", "rain_sensor_temp"} ->
         {"get_values"}
    [] field = "PWM" -> {"get_PWM"}
    [] field = "errors" -> {"get_errors"}
    [] field = "switch" -> {"get_switch_closed"}
    [] field = "safe" -> {"make_safety_decision"}
    [] field = "last_update" -> {"utcnow"}
    [] OTHER -> {"query_name", "query_firmware", "query_serial"}

C26_LogsHaveEqualRowCounts ==
  pc \in {"done", "fault"} =>
    Len(Rows(condition_file)) = Len(Rows(telemetry_file))

\* the places a cycle may go to from a place (a fault apart)
After(place) ==
  CASE place = "get_ambient_temperature" -> {place, "get_sky_temperature"}
    [] place = "get_sky_temperature" -> {place, "wind_speed_enabled"}
    [] place = "wind_speed_enabled" -> {place, "get_wind_speed", "get_values"}
    [] place = "get_wind_speed" -> {place, "get_values"}
    [] place = "get_values" -> {place, "get_PWM"}
    [] place = "get_PWM" -> {place, "get_errors"}
    [] place = "get_errors" -> {place, "get_switch_open"}
    [] place = "get_switch_open" -> {place, "get_switch_closed"}
    [] place = "get_switch_closed" -> {place, "get_switch_open", "make_safety_decision"}
    [] place = "make_safety_decision" -> {"utcnow"}
    [] place = "utcnow" -> {"update_conditions"}
    [] place = "update_conditions" -> {"update_telemetry"}
    [] place = "update_telemetry" -> {"done"}
    [] OTHER -> {"__init__", "query_name", "query_firmware", "query_serial",
                 "get_ambient_temperature"}

\* a log has a row of the running cycle
Logged(file) == \E k \in 1..Len(Rows(file)) : Rows(file)[k][1] = [UT |-> clock]

\* C27: the steps of a cycle come in one order: the exchanges for ambient,
\* sky, wind, values, PWM, errors and switch, then the safety decision, then
\* the timestamp, then the condition log, then the telemetry log. An
\* exchange is made only while there is no verdict, no timestamp and no row
\* of the cycle in a log; the verdict is set with the switch resolved, the
\* timestamp with the verdict set, the condition row with the timestamp set,
\* the telemetry row with the condition row written.
C27_CycleStepOrder ==
  [][/\ pc' \in After(pc) \cup {"fault"}
     /\ (pc \in QuerySites /\ AAG) =>
          /\ self.safe = None /\ self.last_update = None
          /\ ~Logged(condition_file) /\ ~Logged(telemetry_file)
     /\ self'.safe # self.safe =>
          \/ pc' = "__init__"
          \/ /\ pc = "make_safety_decision" /\ event = "get_switch"
             /\ self.switch # None /\ self.PWM # None
             /\ self.last_update = None
     /\ self'.last_update # self.last_update =>
          \/ pc' = "__init__"
          \/ pc = "utcnow" /\ self.safe # None /\ ~Logged(condition_file)
     /\ condition_file' # condition_file =>
          /\ pc = "update_conditions" /\ self.last_update = Some(clock)
          /\ ~Logged(telemetry_file) /\ Logged(condition_file')
     /\ telemetry_file' # telemetry_file =>
          /\ pc = "update_telemetry" /\ Logged(condition_file)
          /\ Logged(telemetry_file')]_vars

C27_Witness ==
  /\ pc = "update_telemetry" /\ clock = 2
  /\ Len(Rows(condition_file)) = 2
  /\ Len(Rows(telemetry_file)) = 1
  /\ Logged(condition_file) /\ ~Logged(telemetry_file)
  /\ self.wind_speed # None

\* no operation on the serial line is on record, and nothing was read
LineUntouched == last.ops = <<>> /\ last.exchanges = 0 /\ responseString = <<>>

\* C28: without a transport nothing is sent and nothing is read: a call of
\* query or reversed_query ends at its assertion, with AssertionError, before
\* any write; in every state without a transport no operation on the serial
\* line is on record.
C28_NoTransportNoTraffic ==
  [][/\ ~AAG => LineUntouched
     /\ ~AAG' => LineUntouched'
     /\ (~AAG /\ pc \in QuerySites) =>
          /\ pc' = "fault" /\ error' = "AssertionError"
          /\ UNCHANGED <<last, responseString, meter, self, files>>]_vars

C28_Witness ==
  /\ ~AAG /\ clock = 2
  /\ pc = "fault" /\ error = "AssertionError"
  /\ call.send = "!T"
  /\ LineUntouched
  /\ Len(Rows(telemetry_file)) = 1

\* the positions of a payload the pattern derived for a call captures: the
\* 13 characters after a prefix of two, the characters after each prefix of a
\* list of prefixes of one length
CaptureRegion(c) ==
  IF c.expect.type = "list"
  THEN UNION {(15 * (k - 1) + Len(c.expect.val[k]) + 1)..(15 * k) :
                k \in 1..Len(c.expect.val)}
  ELSE (Len(c.expect.val) + 1)..(Len(c.expect.val) + 13)

\* the characters of the value a call returned: of the one string, or of the
\* strings of the list
ValueChars(c, v) ==
  IF v = None THEN {}
  ELSE IF c.expect.type = "list"
       THEN UNION {{v[1][k][j] : j \in 1..Len(v[1][k])} : k \in 1..Len(v[1])}
       ELSE {v[1][k] : k \in 1..Len(v[1])}

\* C29: with a pattern derived from a prefix of at most two characters or
\* from a list, an attempt is rejected whenever a captured position holds a
\* character that is no whitespace, letter, digit, underscore or period; a
\* frame with a minus sign there is never accepted, and no value query
\* returns has a minus sign in it.
C29_MinusSignNeverAccepted ==
  (Judged /\ (last.call.expect.type = "list" \/ Len(last.call.expect.val) <= 2)) =>
    /\ (\E k \in CaptureRegion(last.call) :
          k <= Len(PayloadPart) /\ PayloadPart[k] \notin CaptureChars)
         => (~last.accepted /\ last.value = None)
    /\ (\E k \in CaptureRegion(last.call) :
          k <= Len(PayloadPart) /\ PayloadPart[k] = "-")
         => (~last.accepted /\ last.value = None)
    /\ "-" \notin ValueChars(last.call, last.value)

C29_Witness ==
  /\ Judged /\ ~last.accepted
  /\ last.call.send = "!S"
  /\ HandshakePart = HandshakeBlock
  /\ PayloadPart = <<"!", "1">> \o Repeat(" ", 9) \o <<"-", "5", "0", "0">>
  /\ last.exchanges = 3
  /\ last.returned /\ last.value = None
=============================================================================
